---- MODULE Spec2Model ----
(***************************************************************************)
(* Model of the blogging agent of src/blogger.py: the LangGraph workflow   *)
(* (fetch_topics -> generate_titles -> generate_outline ->                 *)
(* generate_content -> optimize_content -> decide_workflow_path), the      *)
(* scoring heuristics of ContentAnalyzer and the interaction loop of       *)
(* BloggingAgent.run.                                                      *)
(*                                                                         *)
(* Text is modelled as a sequence of one-character strings, so that        *)
(* str.lower, str.strip, str.split, str.startswith, "in" and the regular   *)
(* expressions of the source are computed and not assumed.                 *)
(***************************************************************************)
EXTENDS Integers, Sequences, FiniteSets, TLC

VARIABLES
    pc,                 \* position: a workflow node about to run, "END", "raised", or a position of run()
    state,              \* the BloggingState dict: the channels of the running workflow, and between two
                        \* invocations the generation_state / final_state of run(); absent keys are
                        \* absent from its DOMAIN
    phase,              \* which call of workflow.invoke in run() is active: "fetch" (line 613), "generate" (line 652), "none"
    max_generation_attempts, \* BloggingConfig.max_generation_attempts
    saved,              \* run(): what save_content_to_file was given, <<>> when it was not called
    path,               \* the last value returned by decide_workflow_path, "none" when the last step evaluated no edge
    last_prompt,        \* the values interpolated into the last prompt sent to llm.invoke
    executed,           \* history: the nodes executed by the running workflow invocation, in order
    calls,              \* history: executions of each node since the topic was selected
    unseen,             \* history: executions of generate_content since the user was last asked for feedback
    llm_raised,         \* history: the node executed last called llm.invoke and the call raised
    told,               \* run(): the messages about saving printed to the user
    ending,             \* history: how run() left the loop: "none" while it runs, "approved", "confirmed",
                        \* "declined", "interrupt", "error" or "no_topics"
    args,               \* the arguments of a single function call that is checked on its own
    returned,           \* what that call returned, NotCalled before it
    session_state,      \* st.session_state of the Wikipedia app
    events              \* history: the questions sent and the clearings of the chat since
                        \* the chat was last set up, in order

vars ==
    << pc, state, phase, max_generation_attempts, saved, path, last_prompt, executed,
       calls, unseen, llm_raised, told, ending, args, returned, session_state, events >>

\* the variables of the Wikipedia app
chatvars == << session_state, events >>

\* the variables of run() and of the workflow
runvars ==
    << pc, state, phase, max_generation_attempts, saved, path, last_prompt, executed,
       calls, unseen, llm_raised, told, ending >>

----------------------------------------------------------------------------
(* Bounds of the model *)

\* largest configured MAX_GENERATION_ATTEMPTS explored
MaxCap == 4
\* largest generation_attempts handed to workflow.invoke as input
MaxInputAttempts == 4
\* generate_content is not explored beyond this many attempts
MaxAttempts == 8
\* largest topic number chosen when the loop is entered directly
MaxChoice == 1
\* the longest text, in words, the readability score is computed for
MaxWords == 52
\* the most sentences in such a text
MaxSentences == 2
\* the most keywords of a keyword list that occur in the content
MaxMatches == 7
\* the words a long content has beyond its headings
LongWords == 500
\* the most posts in a listing of the feed
MaxPosts == 17
\* the longest page content, in characters, scrape_wikipedia returns
MaxContent == 8
\* the most chat events (asks and clears) followed after one page is scraped
MaxEvents == 4

----------------------------------------------------------------------------
(* Text *)

Whitespace == {" ", "\t", "\n", "\r"}

Digits == {"0", "1", "2", "3", "4", "5", "6", "7", "8", "9"}

UpperCase ==
    <<"A","B","C","D","E","F","G","H","I","J","K","L","M","N","O","P","Q","R","S","T","U","V","W","X","Y","Z">>

LowerCase ==
    <<"a","b","c","d","e","f","g","h","i","j","k","l","m","n","o","p","q","r","s","t","u","v","w","x","y","z">>

LowerChar(c) ==
    IF \E i \in 1..Len(UpperCase) : UpperCase[i] = c
    THEN LowerCase[CHOOSE i \in 1..Len(UpperCase) : UpperCase[i] = c]
    ELSE c

\* str.lower()
Lower(s) == [i \in 1..Len(s) |-> LowerChar(s[i])]

SetMin(S) == CHOOSE x \in S : \A y \in S : x <= y

SetMax(S) == CHOOSE x \in S : \A y \in S : x >= y

\* str.strip()
Strip(s) ==
    LET idx == {i \in 1..Len(s) : s[i] \notin Whitespace}
    IN  IF idx = {} THEN <<>> ELSE SubSeq(s, SetMin(idx), SetMax(idx))

\* str.startswith(p)
StartsWith(s, p) == Len(s) >= Len(p) /\ SubSeq(s, 1, Len(p)) = p

\* the positions (0-based offsets) at which sub occurs in s
Occurrences(s, sub) ==
    {i \in 0..(Len(s) - Len(sub)) : SubSeq(s, i + 1, i + Len(sub)) = sub}

\* sub in s
Contains(s, sub) == Occurrences(s, sub) # {}

\* len(s.split())
WordCount(s) ==
    Cardinality({i \in 1..Len(s) :
        s[i] \notin Whitespace /\ (i = 1 \/ s[i-1] \in Whitespace)})

RECURSIVE Split(_, _)
\* s.split(sep) for a non-empty separator
Split(s, sep) ==
    IF Occurrences(s, sep) = {} THEN <<s>>
    ELSE LET i == SetMin(Occurrences(s, sep))
         IN  <<SubSeq(s, 1, i)>> \o Split(SubSeq(s, i + Len(sep) + 1, Len(s)), sep)

\* s.split(sep, 1)[1], for s that contains sep
AfterFirst(s, sep) ==
    LET i == SetMin(Occurrences(s, sep))
    IN  SubSeq(s, i + Len(sep) + 1, Len(s))

\* re.match(r'^\d+\.', s)
IsNumbered(s) ==
    \E k \in 1..(Len(s) - 1) :
        /\ \A j \in 1..k : s[j] \in Digits
        /\ s[k + 1] = "."

----------------------------------------------------------------------------
(* Literal texts of the source, and the texts the environment supplies *)

T_approve ==
    <<"a","p","p","r","o","v","e">>
T_regenerate ==
    <<"r","e","g","e","n","e","r","a","t","e">>
T_revise ==
    <<"r","e","v","i","s","e">>
T_improve ==
    <<"i","m","p","r","o","v","e">>
FB_empty ==
    <<>>
FB_approve ==
    <<"a","p","p","r","o","v","e">>
FB_APPROVE ==
    <<"A","p","p","r","o","v","e">>
FB_regenerate ==
    <<"r","e","g","e","n","e","r","a","t","e">>
FB_comment ==
    <<"t","o","o"," ","d","r","y">>
FB_approved ==
    <<"a","p","p","r","o","v","e","d">>
FB_padded ==
    <<" ","a","p","p","r","o","v","e","\n">>
T_H1 ==
    <<"#"," ">>
T_FailedContent ==
    <<"\n","\n","F","a","i","l","e","d"," ","t","o"," ","g","e","n","e","r","a","t","e"," ","c","o","n","t","e","n","t",".">>
T_FailedOutline ==
    <<"\n","\n","F","a","i","l","e","d"," ","t","o"," ","g","e","n","e","r","a","t","e"," ","d","e","t","a","i","l","e","d"," ","o","u","t","l","i","n","e",".">>
T_NoTopics ==
    <<"N","o"," ","s","u","i","t","a","b","l","e"," ","t","o","p","i","c","s"," ","f","o","u","n","d">>
T_LlmError ==
    <<"l","l","m"," ","e","r","r","o","r">>
Topic_AI ==
    <<"T","h","e"," ","F","u","t","u","r","e"," ","o","f"," ","A","r","t","i","f","i","c","i","a","l"," ","I","n","t","e","l","l","i","g","e","n","c","e"," ","i","n"," ","2","0","2","4">>
Topic_Climate ==
    <<"C","l","i","m","a","t","e"," ","C","h","a","n","g","e"," ","S","o","l","u","t","i","o","n","s"," ","T","h","a","t"," ","A","c","t","u","a","l","l","y"," ","W","o","r","k">>
Topic_Remote ==
    <<"R","e","m","o","t","e"," ","W","o","r","k"," ","B","e","s","t"," ","P","r","a","c","t","i","c","e","s"," ","f","o","r"," ","P","r","o","d","u","c","t","i","v","i","t","y">>
Topic_Cyber ==
    <<"C","y","b","e","r","s","e","c","u","r","i","t","y"," ","T","r","e","n","d","s"," ","E","v","e","r","y"," ","D","e","v","e","l","o","p","e","r"," ","S","h","o","u","l","d"," ","K","n","o","w">>
Topic_Mental ==
    <<"M","e","n","t","a","l"," ","H","e","a","l","t","h"," ","i","n"," ","t","h","e"," ","D","i","g","i","t","a","l"," ","A","g","e">>
Sub_technology ==
    <<"t","e","c","h","n","o","l","o","g","y">>
Sub_environment ==
    <<"e","n","v","i","r","o","n","m","e","n","t">>
Sub_productivity ==
    <<"p","r","o","d","u","c","t","i","v","i","t","y">>
Sub_programming ==
    <<"p","r","o","g","r","a","m","m","i","n","g">>
Sub_psychology ==
    <<"p","s","y","c","h","o","l","o","g","y">>
Topic_Feed ==
    <<"R","u","s","t"," ","2",".","0"," ","r","e","l","e","a","s","e","d"," ","t","o","d","a","y">>
Sub_rust ==
    <<"r","u","s","t">>
Pref_General ==
    <<"G","e","n","e","r","a","l"," ","P","u","b","l","i","c">>
Pref_Conversational ==
    <<"C","o","n","v","e","r","s","a","t","i","o","n","a","l">>
Pref_Medium ==
    <<"M","e","d","i","u","m">>
Pref_BlogPost ==
    <<"B","l","o","g"," ","P","o","s","t">>
Pref_Short ==
    <<"S","h","o","r","t">>
Len_Short ==
    <<"3","0","0","-","6","0","0"," ","w","o","r","d","s">>
Len_Medium ==
    <<"6","0","0","-","1","2","0","0"," ","w","o","r","d","s">>
Len_Long ==
    <<"1","2","0","0","-","2","5","0","0"," ","w","o","r","d","s">>
Len_Default ==
    <<"M","e","d","i","u","m"," ","l","e","n","g","t","h">>
Pref_Long ==
    <<"L","o","n","g">>
Kw_rust ==
    <<"r","u","s","t">>
Titles_Numbered ==
    <<"1","."," ","R","u","s","t"," ","R","i","s","e","s","\n","2","."," ","W","h","y"," ","R","u","s","t">>
Titles_Plain ==
    <<"R","u","s","t"," ","R","i","s","e","s","\n","W","h","y"," ","R","u","s","t">>
Outline_Ok ==
    <<"#"," ","R","u","s","t","\n","#","#"," ","I","n","t","r","o","\n","#","#"," ","E","n","d">>
Content_Heading ==
    <<"#"," ","R","u","s","t","\n","\n","R","u","s","t"," ","i","s"," ","o","u","t","."," ","T","r","y"," ","i","t","!">>
Content_Blank ==
    <<"\n","#"," ","R","u","s","t","\n","\n","I","t"," ","i","s"," ","o","u","t",".">>
Content_Plain ==
    <<"I","n","t","r","o"," ","t","e","x","t">>

T_introduction ==
    <<"i","n","t","r","o","d","u","c","t","i","o","n">>
T_conclusion ==
    <<"c","o","n","c","l","u","s","i","o","n">>
T_summary ==
    <<"s","u","m","m","a","r","y">>
T_ParagraphBreak ==
    <<"\n","\n">>
T_Newline ==
    <<"\n">>
T_Dot ==
    <<".">>
T_CommaSpace ==
    <<","," ">>
T_Ellipsis ==
    <<".",".",".">>
T_Word ==
    <<"a","b"," ">>
T_SentenceWord ==
    <<"G","o","?","!"," ">>
Topic_Rust ==
    <<"R","u","s","t">>
Kw_java ==
    <<"j","a","v","a">>
T_Subheading ==
    <<"#","#"," ","I","n","t","r","o","\n">>
Content_Keywords ==
    <<"r","u","s","t"," ","i","s"," ","f","a","s","t",","," ","s","a","f","e"," ","a","n","d"," ","f","u","n"," ","t","o"," ","c","o","d","e",";"," ","t","o","o","l","s"," ","a","n","d"," ","t","y","p","e","s"," ","h","e","l","p","."," ">>
Content_Full ==
    <<"#"," ","R","u","s","t","\n","\n","#","#"," ","I","n","t","r","o","d","u","c","t","i","o","n","\n","\n","R","u","s","t"," ","i","s"," ","f","a","s","t",".","\n","\n","R","u","s","t"," ","i","s"," ","s","a","f","e",".","\n","\n","T","o","o","l","s"," ","h","e","l","p",".","\n","\n","T","y","p","e","s"," ","h","e","l","p",".","\n","\n","#","#"," ","C","o","n","c","l","u","s","i","o","n","\n","\n","T","r","y"," ","i","t",".">>
\* keywords that occur in Content_Keywords
MatchingKeywords ==
    << <<"r","u","s","t">>, <<"F","A","S","T">>, <<"s","a","f","e">>, <<"f","u","n">>, <<"c","o","d","e">>, <<"t","o","o","l">>, <<"t","y","p","e">> >>
Choice_Decimal ==
    <<"2",".","0">>
Choice_TwoNumbers ==
    <<"1"," ","2">>
T_OutputDir ==
    <<"g","e","n","e","r","a","t","e","d","_","c","o","n","t","e","n","t","/">>
T_Md ==
    <<".","m","d">>
T_NotFound ==
    <<"T","o","p","i","c"," ","n","o","t"," ","f","o","u","n","d"," ","o","r"," ","n","o"," ","c","o","n","t","e","n","t"," ","a","v","a","i","l","a","b","l","e",".">>
T_StatusSep ==
    <<":"," ">>
T_Timeout ==
    <<"t","i","m","e","d"," ","o","u","t">>
T_WelcomePre ==
    <<"H","i","!"," ","I","'","v","e"," ","a","n","a","l","y","z","e","d"," ","t","h","e"," ","W","i","k","i","p","e","d","i","a"," ","p","a","g","e"," ","a","b","o","u","t"," ","'">>
T_WelcomePost ==
    <<"'","."," ","F","e","e","l"," ","f","r","e","e"," ","t","o"," ","a","s","k"," ","m","e"," ","a","n","y"," ","q","u","e","s","t","i","o","n","s"," ","a","b","o","u","t"," ","t","h","e"," ","c","o","n","t","e","n","t","!">>
T_Sorry ==
    <<"S","o","r","r","y",","," ","I"," ","e","n","c","o","u","n","t","e","r","e","d"," ","a","n"," ","e","r","r","o","r",":"," ">>
T_ResultKey ==
    <<"'","r","e","s","u","l","t","'">>
T_y ==
    <<"y">>
T_n ==
    <<"n">>

----------------------------------------------------------------------------
(* Dictionaries: a dict is a function whose DOMAIN is the set of its keys *)

EmptyDict == <<>>

\* d.get(k, default)
Get(d, k, default) == IF k \in DOMAIN d THEN d[k] ELSE default

\* {**d, **u}: the shallow merge LangGraph applies to a node's partial update
Merge(d, u) ==
    [k \in (DOMAIN d) \cup (DOMAIN u) |-> IF k \in DOMAIN u THEN u[k] ELSE d[k]]

\* the outcome of a call: it raised, or it returned a value
Raised == [raised |-> TRUE]

\* the value of returned before the call
NotCalled == [called |-> FALSE]

Returned(v) == [raised |-> FALSE, value |-> v]

RECURSIVE Join(_, _)
\* sep.join(xs)
Join(xs, sep) ==
    IF xs = <<>> THEN <<>>
    ELSE IF Len(xs) = 1 THEN xs[1]
    ELSE xs[1] \o sep \o Join(Tail(xs), sep)

----------------------------------------------------------------------------
(* ContentAnalyzer *)

Terminators == {".", "!", "?"}

\* len(re.findall(r'[.!?]+', text))
SentenceCount(text) ==
    Cardinality({i \in 1..Len(text) :
        text[i] \in Terminators /\ (i = 1 \/ text[i-1] \notin Terminators)})

\* variant: the boundaries belong to the better band
calculate_readability_score_inclusive(text) ==
    LET sentences == SentenceCount(text)
        words == WordCount(text)
    IN  IF sentences = 0 THEN 0
        ELSE IF words <= 15 * sentences THEN 85
        ELSE IF words <= 20 * sentences THEN 75
        ELSE IF words <= 25 * sentences THEN 65
        ELSE 50

calculate_readability_score(text) ==
    LET sentences == SentenceCount(text)
        words == WordCount(text)
    IN  IF sentences = 0 THEN 0
        ELSE IF words < 15 * sentences THEN 85
        ELSE IF words < 20 * sentences THEN 75
        ELSE IF words < 25 * sentences THEN 65
        ELSE 50

\* the positions where ^ matches under re.MULTILINE and a character follows
LineStarts(s) == {i \in 1..Len(s) : i = 1 \/ s[i-1] = "\n"}

\* re.search(r'^##\s', content, re.MULTILINE)
HasSubheading(s) ==
    \E i \in LineStarts(s) :
        /\ i + 2 <= Len(s)
        /\ s[i] = "#" /\ s[i+1] = "#"
        /\ s[i+2] \in Whitespace

\* the position of the first "\n" at or after i, Len(s)+1 when there is none
LineEnd(s, i) == SetMin({j \in i..(Len(s) + 1) : j = Len(s) + 1 \/ s[j] = "\n"})

\* the length of the run of "#" that starts at i
HashRun(s, i) == SetMin({j \in i..(Len(s) + 1) : j = Len(s) + 1 \/ s[j] # "#"}) - i

\* ^#+\s(.+) matches at line start i
HeaderAt(s, i) ==
    LET j == i + HashRun(s, i)
    IN  /\ HashRun(s, i) >= 1
        /\ j + 1 <= Len(s)
        /\ s[j] \in Whitespace
        /\ s[j+1] # "\n"

RECURSIVE HeaderScan(_, _)
HeaderScan(s, i) ==
    IF i > Len(s) THEN 0
    ELSE IF HeaderAt(s, i)
         THEN 1 + HeaderScan(s, LineEnd(s, i + HashRun(s, i) + 1) + 1)
         ELSE HeaderScan(s, LineEnd(s, i) + 1)

\* len(re.findall(r'^#+\s(.+)', s, re.MULTILINE))
HeaderCount(s) == HeaderScan(s, 1)

Min(a, b) == IF a <= b THEN a ELSE b

Max(a, b) == IF a >= b THEN a ELSE b

\* variant: without the final min(score, 100)
calculate_seo_score_no_clamp(content, topic, keywords) ==
    LET word_count == WordCount(content)
        content_lower == Lower(content)
        topic_lower == Lower(topic)
        keyword_count ==
            Cardinality({i \in 1..Len(keywords) : Contains(content_lower, Lower(keywords[i]))})
        score ==
            60
            + (IF StartsWith(Strip(content), T_H1) THEN 15 ELSE 0)
            + (IF 500 <= word_count /\ word_count <= 2000 THEN 20
               ELSE IF word_count < 300 THEN 0 - 20 ELSE 0)
            + (IF Contains(content_lower, topic_lower) THEN 10 ELSE 0)
            + Min(keyword_count * 3, 15)
            + (IF HasSubheading(content) THEN 10 ELSE 0)
    IN  score

\* variant: without the min(..., 15) on the keyword bonus
calculate_seo_score_no_keyword_cap(content, topic, keywords) ==
    LET word_count == WordCount(content)
        content_lower == Lower(content)
        topic_lower == Lower(topic)
        keyword_count ==
            Cardinality({i \in 1..Len(keywords) : Contains(content_lower, Lower(keywords[i]))})
        score ==
            60
            + (IF StartsWith(Strip(content), T_H1) THEN 15 ELSE 0)
            + (IF 500 <= word_count /\ word_count <= 2000 THEN 20
               ELSE IF word_count < 300 THEN 0 - 20 ELSE 0)
            + (IF Contains(content_lower, topic_lower) THEN 10 ELSE 0)
            + keyword_count * 3
            + (IF HasSubheading(content) THEN 10 ELSE 0)
    IN  Min(score, 100)

calculate_seo_score(content, topic, keywords) ==
    LET word_count == WordCount(content)
        content_lower == Lower(content)
        topic_lower == Lower(topic)
        keyword_count ==
            Cardinality({i \in 1..Len(keywords) : Contains(content_lower, Lower(keywords[i]))})
        score ==
            60
            + (IF StartsWith(Strip(content), T_H1) THEN 15 ELSE 0)
            + (IF 500 <= word_count /\ word_count <= 2000 THEN 20
               ELSE IF word_count < 300 THEN 0 - 20 ELSE 0)
            + (IF Contains(content_lower, topic_lower) THEN 10 ELSE 0)
            + Min(keyword_count * 3, 15)
            + (IF HasSubheading(content) THEN 10 ELSE 0)
    IN  Min(score, 100)

\* the paragraphs counted by calculate_content_quality_score
Paragraphs(content) ==
    SelectSeq(Split(content, T_ParagraphBreak),
              LAMBDA p : Strip(p) # <<>> /\ Strip(p)[1] # "#")

calculate_content_quality_score(content, outline) ==
    LET outline_headers == HeaderCount(outline)
        content_headers == HeaderCount(content)
        score ==
            50
            + (IF 10 * content_headers >= 7 * outline_headers THEN 20 ELSE 0)
            + (IF Contains(Lower(content), T_introduction) \/ StartsWith(content, T_H1)
               THEN 10 ELSE 0)
            + (IF Contains(Lower(content), T_conclusion) \/ Contains(Lower(content), T_summary)
               THEN 10 ELSE 0)
            + (IF Len(Paragraphs(content)) >= 5 THEN 10 ELSE 0)
    IN  Min(score, 100)

----------------------------------------------------------------------------
(* BloggingConfig *)

\* the default of MAX_GENERATION_ATTEMPTS
DefaultMaxGenerationAttempts == 3

\* the values MAX_GENERATION_ATTEMPTS is explored with
CapValues == 1..MaxCap

----------------------------------------------------------------------------
(* TopicFetcher *)

_get_fallback_topics ==
    << [title |-> Topic_AI, score |-> 5000, num_comments |-> 200, subreddit |-> Sub_technology],
       [title |-> Topic_Climate, score |-> 4500, num_comments |-> 180, subreddit |-> Sub_environment],
       [title |-> Topic_Remote, score |-> 4000, num_comments |-> 150, subreddit |-> Sub_productivity],
       [title |-> Topic_Cyber, score |-> 3800, num_comments |-> 120, subreddit |-> Sub_programming],
       [title |-> Topic_Mental, score |-> 3500, num_comments |-> 190, subreddit |-> Sub_psychology] >>

\* the keys of a post the loop of fetch_reddit_topics reads with post_data[...]
RequiredPostKeys == {"title", "score", "over_18", "num_comments", "subreddit", "created_utc"}

\* the keys the filter expression reads of this post: "and" stops at the first
\* false operand, so over_18 is read only when the score is above 1000 and
\* title only when the post is also not over_18
FilterKeysRead(post_data) ==
    {"score"} \cup
    (IF "score" \in DOMAIN post_data /\ post_data["score"] > 1000
     THEN {"over_18"} \cup
          (IF "over_18" \in DOMAIN post_data /\ ~post_data["over_18"] THEN {"title"} ELSE {})
     ELSE {})

\* the keys topics.append({...}) reads with post_data[...]
TopicKeys == {"title", "score", "num_comments", "subreddit", "created_utc"}

\* variant: a score of exactly 1000 passes
PassesFilter_inclusive(post_data) ==
    /\ post_data["score"] >= 1000
    /\ ~post_data["over_18"]
    /\ Len(post_data["title"]) < 200
    /\ Len(post_data["title"]) > 10
    /\ ~Get(post_data, "stickied", FALSE)

\* the filter of fetch_reddit_topics
PassesFilter(post_data) ==
    /\ post_data["score"] > 1000
    /\ ~post_data["over_18"]
    /\ Len(post_data["title"]) < 200
    /\ Len(post_data["title"]) > 10
    /\ ~Get(post_data, "stickied", FALSE)

\* the topic record appended for a post that passes the filter
TopicOf(post_data) ==
    [title |-> post_data["title"],
     score |-> post_data["score"],
     num_comments |-> post_data["num_comments"],
     subreddit |-> post_data["subreddit"],
     created_utc |-> post_data["created_utc"],
     url |-> Get(post_data, "url", <<>>),
     selftext |-> IF Get(post_data, "selftext", <<>>) # <<>>
                  THEN SubSeq(post_data["selftext"], 1, Min(200, Len(post_data["selftext"]))) \o T_Ellipsis
                  ELSE <<>>]

RECURSIVE FilterPosts(_)
\* the loop over data['data']['children']: Raised when it reads a key a post lacks
FilterPosts(children) ==
    IF children = <<>> THEN Returned(<<>>)
    ELSE LET post_data == Head(children)
             rest == FilterPosts(Tail(children))
         IN  IF ~(FilterKeysRead(post_data) \subseteq DOMAIN post_data) THEN Raised
             ELSE IF ~PassesFilter(post_data) THEN rest
             ELSE IF ~(TopicKeys \subseteq DOMAIN post_data) THEN Raised
             ELSE IF rest.raised THEN Raised
             ELSE Returned(<<TopicOf(post_data)>> \o rest.value)

\* variant: an exception in the loop gives the topics collected so far
fetch_reddit_topics_no_fallback(feed) ==
    IF ~feed.ok THEN _get_fallback_topics
    ELSE LET topics == FilterPosts(feed.children)
         IN  IF topics.raised THEN <<>>
             ELSE SubSeq(topics.value, 1, Min(15, Len(topics.value)))

\* feed is what requests.get gave: [ok |-> FALSE] for a network or HTTP error,
\* [ok |-> TRUE, children |-> posts] for a parsed listing
fetch_reddit_topics(feed) ==
    IF ~feed.ok THEN _get_fallback_topics
    ELSE LET topics == FilterPosts(feed.children)
         IN  IF topics.raised THEN _get_fallback_topics
             ELSE SubSeq(topics.value, 1, Min(15, Len(topics.value)))

PostGood ==
    [title |-> Topic_Feed, score |-> 2500, over_18 |-> FALSE, stickied |-> FALSE,
     num_comments |-> 40, subreddit |-> Sub_rust, created_utc |-> 1]

PostLow == [PostGood EXCEPT !.score = 900]

\* what the feed may answer
Feeds ==
    { [ok |-> FALSE],
      [ok |-> TRUE, children |-> <<PostLow, PostGood>>] }

\* what the feed may answer to the first fetch of a session: also listings of up to
\* MaxPosts passing posts, the empty listing among them
SessionFeeds ==
    Feeds \cup
    { [ok |-> TRUE, children |-> [i \in 1..n |-> [PostGood EXCEPT !.created_utc = i]]] :
        n \in 0..MaxPosts }

----------------------------------------------------------------------------
(* The text generator: llm.invoke(prompt) returns a text or raises *)

LlmRaises == [ok |-> FALSE, error |-> T_LlmError]

LlmReturns(text) == [ok |-> TRUE, content |-> text]

TitleResponses == {LlmRaises, LlmReturns(Titles_Numbered), LlmReturns(Titles_Plain)}

OutlineResponses == {LlmRaises, LlmReturns(Outline_Ok)}

ContentResponses ==
    {LlmRaises, LlmReturns(Content_Heading), LlmReturns(Content_Blank), LlmReturns(Content_Plain)}

----------------------------------------------------------------------------
(* The nodes of the workflow.  Each gives Raised (an exception leaves the  *)
(* node) or Returned(update), the partial state the node returns.          *)

fetch_trending_topics_node(s, feed, now) ==
    LET topics == fetch_reddit_topics(feed)
    IN  IF topics = <<>>
        THEN Returned([trending_topics |-> <<>>, errors |-> <<T_NoTopics>>])
        ELSE Returned([trending_topics |-> topics, errors |-> <<>>, created_at |-> now])

\* the values interpolated into the prompt of generate_title_suggestions_node
TitlePrompt(s) ==
    [selected_topic |-> s["selected_topic"], audience |-> s["audience"],
     tone |-> s["tone"], content_type |-> s["content_type"]]

\* [line.strip() for line in text.split('\n') if line.strip() and re.match(r'^\d+\.', line.strip())]
ParseTitles(text) ==
    LET lines == Split(text, T_Newline)
        stripped == [i \in 1..Len(lines) |-> Strip(lines[i])]
    IN  SelectSeq(stripped, LAMBDA l : l # <<>> /\ IsNumbered(l))

generate_title_suggestions_node(s, response) ==
    IF ~({"selected_topic", "audience", "tone", "content_type"} \subseteq DOMAIN s) THEN Raised
    ELSE IF response.ok
         THEN Returned([title_suggestions |-> ParseTitles(response.content)])
         ELSE Returned([title_suggestions |-> <<s["selected_topic"]>>,
                        errors |-> Append(Get(s, "errors", <<>>), response.error)])

\* the values interpolated into the prompt of generate_outline_node
OutlinePrompt(s) ==
    [content_type |-> s["content_type"], selected_topic |-> s["selected_topic"],
     audience |-> s["audience"], tone |-> s["tone"], length |-> s["length"],
     keywords |-> Join(Get(s, "keywords", <<>>), T_CommaSpace)]

generate_outline_node(s, response) ==
    IF ~({"content_type", "selected_topic", "audience", "tone", "length"} \subseteq DOMAIN s)
    THEN Raised
    ELSE IF response.ok
         THEN Returned([outline |-> response.content])
         ELSE Returned([outline |-> T_H1 \o s["selected_topic"] \o T_FailedOutline,
                        errors |-> Append(Get(s, "errors", <<>>), response.error)])

\* length_guidelines.get(length, 'Medium length')
LengthGuideline(length) ==
    IF length = Pref_Short THEN Len_Short
    ELSE IF length = Pref_Medium THEN Len_Medium
    ELSE IF length = Pref_Long THEN Len_Long
    ELSE Len_Default

\* the values interpolated into the prompt of generate_content_node
ContentPrompt(s) ==
    [content_type |-> s["content_type"], outline |-> s["outline"],
     audience |-> s["audience"], tone |-> s["tone"],
     length |-> LengthGuideline(s["length"]),
     keywords |-> Join(Get(s, "keywords", <<>>), T_CommaSpace)]

\* attempt = state.get('generation_attempts', 0) + 1
NextAttempt(s) == Get(s, "generation_attempts", 0) + 1

\* max(1, word_count // 200)
ReadTime(word_count) == Max(1, word_count \div 200)

\* faulty variant: a failed generation does not advance generation_attempts
generate_content_node_no_count_on_failure(s, response) ==
    IF ~({"content_type", "outline", "audience", "tone", "length"} \subseteq DOMAIN s)
    THEN Raised
    ELSE IF response.ok
         THEN Returned([content |-> response.content,
                        word_count |-> WordCount(response.content),
                        estimated_read_time |-> ReadTime(WordCount(response.content)),
                        generation_attempts |-> NextAttempt(s)])
         ELSE IF "selected_topic" \notin DOMAIN s THEN Raised
         ELSE Returned([content |-> T_H1 \o s["selected_topic"] \o T_FailedContent,
                        word_count |-> 0,
                        estimated_read_time |-> 0,
                        errors |-> Append(Get(s, "errors", <<>>), response.error)])

\* variant: the failure path counts the words of the placeholder
generate_content_node_failure_counts_words(s, response) ==
    IF ~({"content_type", "outline", "audience", "tone", "length"} \subseteq DOMAIN s)
    THEN Raised
    ELSE IF response.ok
         THEN Returned([content |-> response.content,
                        word_count |-> WordCount(response.content),
                        estimated_read_time |-> ReadTime(WordCount(response.content)),
                        generation_attempts |-> NextAttempt(s)])
         ELSE IF "selected_topic" \notin DOMAIN s THEN Raised
         ELSE Returned([content |-> T_H1 \o s["selected_topic"] \o T_FailedContent,
                        word_count |-> WordCount(T_H1 \o s["selected_topic"] \o T_FailedContent),
                        estimated_read_time |-> 0,
                        generation_attempts |-> NextAttempt(s),
                        errors |-> Append(Get(s, "errors", <<>>), response.error)])

generate_content_node(s, response) ==
    IF ~({"content_type", "outline", "audience", "tone", "length"} \subseteq DOMAIN s)
    THEN Raised
    ELSE IF response.ok
         THEN Returned([content |-> response.content,
                        word_count |-> WordCount(response.content),
                        estimated_read_time |-> ReadTime(WordCount(response.content)),
                        generation_attempts |-> NextAttempt(s)])
         ELSE IF "selected_topic" \notin DOMAIN s THEN Raised
         ELSE Returned([content |-> T_H1 \o s["selected_topic"] \o T_FailedContent,
                        word_count |-> 0,
                        estimated_read_time |-> 0,
                        generation_attempts |-> NextAttempt(s),
                        errors |-> Append(Get(s, "errors", <<>>), response.error)])

\* title.startswith(('1.', '2.', '3.', '4.', '5.'))
HasListNumber(title) ==
    /\ Len(title) >= 2
    /\ title[1] \in {"1", "2", "3", "4", "5"}
    /\ title[2] = "."

\* the heading text content_optimization_node injects
HeadingTitle(title) ==
    IF HasListNumber(title) THEN Strip(AfterFirst(title, T_Dot)) ELSE title

\* the content after "Ensure proper title format"; Raised when title_suggestions is empty
NormalizeHeading(s) ==
    IF StartsWith(Strip(s["content"]), T_H1) THEN Returned(s["content"])
    ELSE LET titles == Get(s, "title_suggestions", <<s["selected_topic"]>>)
         IN  IF titles = <<>> THEN Raised
             ELSE Returned(T_H1 \o HeadingTitle(titles[1]) \o T_ParagraphBreak \o s["content"])

content_optimization_node(s) ==
    IF ~({"content", "selected_topic", "outline"} \subseteq DOMAIN s) THEN Raised
    ELSE LET content == NormalizeHeading(s)
         IN  IF content.raised THEN Raised
             ELSE Returned(
                 [optimized_content |-> content.value,
                  seo_score |-> calculate_seo_score(content.value, s["selected_topic"],
                                                    Get(s, "keywords", <<>>)),
                  readability_score |-> calculate_readability_score(content.value),
                  content_quality_score |->
                      calculate_content_quality_score(content.value, s["outline"])])

----------------------------------------------------------------------------
(* Conditional logic *)

\* faulty variant: the feedback is compared without lower()
decide_workflow_path_case_sensitive(s) ==
    LET feedback == Strip(Get(s, "user_feedback", <<>>))
        attempts == Get(s, "generation_attempts", 0)
    IN  IF feedback = T_approve THEN "end"
        ELSE IF attempts >= 3 THEN "end"
        ELSE "regenerate"

\* faulty variant: the cap is tested with > in place of >=
decide_workflow_path_off_by_one(s) ==
    LET feedback == Strip(Lower(Get(s, "user_feedback", <<>>)))
        attempts == Get(s, "generation_attempts", 0)
    IN  IF feedback = T_approve THEN "end"
        ELSE IF attempts > 3 THEN "end"
        ELSE "regenerate"

decide_workflow_path(s) ==
    LET feedback == Strip(Lower(Get(s, "user_feedback", <<>>)))
        attempts == Get(s, "generation_attempts", 0)
    IN  IF feedback = T_approve THEN "end"
        ELSE IF attempts >= 3 THEN "end"
        ELSE IF feedback \in {T_regenerate, T_revise, T_improve} THEN "regenerate"
        ELSE "regenerate"

----------------------------------------------------------------------------
(* The workflow graph of _build_workflow *)

Nodes ==
    {"fetch_topics", "generate_titles", "generate_outline", "generate_content",
     "optimize_content"}

EntryPoint == "fetch_topics"

\* workflow.add_edge
Edges ==
    [fetch_topics |-> "generate_titles",
     generate_titles |-> "generate_outline",
     generate_outline |-> "generate_content",
     generate_content |-> "optimize_content"]

\* faulty variant: "regenerate" leads back to generate_outline
ConditionalEdges_to_outline == [regenerate |-> "generate_outline", end |-> "END"]

\* workflow.add_conditional_edges("optimize_content", decide_workflow_path, ...)
ConditionalEdges == [regenerate |-> "generate_content", end |-> "END"]

\* a node ran: its update is merged and the workflow follows the node's edge;
\* an exception leaves workflow.invoke
Step(node, result) ==
    /\ executed' = Append(executed, node)
    /\ calls' = [calls EXCEPT ![node] = @ + 1]
    /\ IF result.raised
       THEN /\ pc' = "raised"
            /\ state' = state
            /\ path' = "none"
       ELSE /\ state' = Merge(state, result.value)
            /\ IF node = "optimize_content"
               THEN /\ path' = decide_workflow_path(state')
                    /\ pc' = ConditionalEdges[path']
               ELSE /\ path' = "none"
                    /\ pc' = Edges[node]

FetchTopics ==
    /\ UNCHANGED << told, ending, args, returned, session_state, events >>
    /\ pc = "fetch_topics"
    /\ \E feed \in (IF phase = "fetch" THEN SessionFeeds ELSE Feeds) :
           Step("fetch_topics",
                fetch_trending_topics_node(state, feed, calls["fetch_topics"] + 1))
    /\ llm_raised' = FALSE
    /\ UNCHANGED << phase, max_generation_attempts, saved,
                    last_prompt, unseen >>

GenerateTitles ==
    /\ UNCHANGED << told, ending, args, returned, session_state, events >>
    /\ pc = "generate_titles"
    /\ \E response \in TitleResponses :
           /\ Step("generate_titles", generate_title_suggestions_node(state, response))
           /\ llm_raised' =
                  /\ {"selected_topic", "audience", "tone", "content_type"} \subseteq DOMAIN state
                  /\ ~response.ok
    /\ last_prompt' =
           IF {"selected_topic", "audience", "tone", "content_type"} \subseteq DOMAIN state
           THEN TitlePrompt(state) ELSE last_prompt
    /\ UNCHANGED << phase, max_generation_attempts, saved,
                    unseen >>

GenerateOutline ==
    /\ UNCHANGED << told, ending, args, returned, session_state, events >>
    /\ pc = "generate_outline"
    /\ \E response \in OutlineResponses :
           /\ Step("generate_outline", generate_outline_node(state, response))
           /\ llm_raised' = ~response.ok
    /\ last_prompt' = OutlinePrompt(state)
    /\ UNCHANGED << phase, max_generation_attempts, saved,
                    unseen >>

GenerateContent ==
    /\ UNCHANGED << told, ending, args, returned, session_state, events >>
    /\ pc = "generate_content"
    /\ Get(state, "generation_attempts", 0) < MaxAttempts
    /\ \E response \in ContentResponses :
           /\ Step("generate_content", generate_content_node(state, response))
           /\ llm_raised' = ~response.ok
    /\ last_prompt' = ContentPrompt(state)
    /\ unseen' = unseen + 1
    /\ UNCHANGED << phase, max_generation_attempts, saved >>

OptimizeContent ==
    /\ UNCHANGED << told, ending, args, returned, session_state, events >>
    /\ pc = "optimize_content"
    /\ Step("optimize_content", content_optimization_node(state))
    /\ llm_raised' = FALSE
    /\ UNCHANGED << phase, max_generation_attempts, saved,
                    last_prompt, unseen >>

\* one step of a running workflow.invoke
NextWorkflow ==
    \/ FetchTopics
    \/ GenerateTitles
    \/ GenerateOutline
    \/ GenerateContent
    \/ OptimizeContent

----------------------------------------------------------------------------
(* UserInterface and BloggingAgent.run *)

\* [^\w\s-]: the characters the first re.sub of save_content_to_file removes are the
\* ones outside this set
SlugKept == {LowerCase[i] : i \in 1..Len(LowerCase)} \cup {UpperCase[i] : i \in 1..Len(UpperCase)}
                \cup Digits \cup Whitespace \cup {"_", "-"}

RECURSIVE Dashes(_)
\* re.sub(r'[-\s]+', '-', s): every run of dashes and whitespace becomes one dash
Dashes(s) ==
    IF s = <<>> THEN <<>>
    ELSE LET sep(c) == c = "-" \/ c \in Whitespace
         IN  IF sep(s[1])
             THEN IF Len(s) > 1 /\ sep(s[2]) THEN Dashes(Tail(s))
                  ELSE <<"-">> \o Dashes(Tail(s))
             ELSE <<s[1]>> \o Dashes(Tail(s))

\* str.strip('-')
StripDashes(s) ==
    LET idx == {i \in 1..Len(s) : s[i] # "-"}
    IN  IF idx = {} THEN <<>> ELSE SubSeq(s, SetMin(idx), SetMax(idx))

\* topic_slug of save_content_to_file
Slug(topic) ==
    Lower(StripDashes(Dashes(SelectSeq(topic, LAMBDA c : c \in SlugKept))))

\* save_content_to_file: the path of the written file, or the empty text when
\* state lacks a key the metadata reads or the directory or file cannot be written
\* (the timestamp of the file name is left out)
save_content_to_file(s, writable) ==
    IF ~({"selected_topic", "audience", "tone", "length", "content_type"} \subseteq DOMAIN s)
        \/ ~writable
    THEN <<>>
    ELSE T_OutputDir \o Slug(s["selected_topic"]) \o T_Md

\* what get_user_preferences may return
PreferenceChoices ==
    { [audience |-> Pref_General, tone |-> Pref_Conversational, length |-> Pref_Medium,
       content_type |-> Pref_BlogPost, keywords |-> <<Kw_rust>>] }

\* what the user may type at the feedback prompt
FeedbackInputs ==
    {FB_empty, FB_approve, FB_APPROVE, FB_padded, FB_regenerate, FB_comment, FB_approved}

\* generation_state of run(), lines 639-646
Seed(selected_topic_data, preferences) ==
    Merge([selected_topic |-> selected_topic_data["title"],
           topic_metadata |-> selected_topic_data,
           user_feedback |-> <<>>,
           generation_attempts |-> 0,
           errors |-> <<>>],
          preferences)

\* the topic lists the first stage can offer
TopicLists == {fetch_reddit_topics(feed) : feed \in Feeds} \ {<<>>}

\* variant: an out-of-range number selects the last topic
SelectedTopicData_falls_back_to_last(topics, choice) ==
    IF choice - 1 < 0 \/ choice - 1 >= Len(topics) THEN topics[Len(topics)] ELSE topics[choice]

\* the topic the user's input selects: index choice - 1 when in range, else the first
SelectedTopicData(topics, choice) ==
    IF choice - 1 < 0 \/ choice - 1 >= Len(topics) THEN topics[1] ELSE topics[choice]

\* the value of a digit character
DigitValue(c) ==
    CASE c = "0" -> 0 [] c = "1" -> 1 [] c = "2" -> 2 [] c = "3" -> 3 [] c = "4" -> 4
      [] c = "5" -> 5 [] c = "6" -> 6 [] c = "7" -> 7 [] c = "8" -> 8 [] c = "9" -> 9

RECURSIVE DigitsValue(_)
\* the number a text of digits and underscores denotes
DigitsValue(s) ==
    IF s = <<>> THEN 0
    ELSE LET front == SubSeq(s, 1, Len(s) - 1)
             last == s[Len(s)]
         IN  IF last = "_" THEN DigitsValue(front)
             ELSE 10 * DigitsValue(front) + DigitValue(last)

\* int(text): surrounding whitespace is dropped, one sign may lead, the rest is
\* digits with single underscores between them; anything else is a ValueError
ParseInt(text) ==
    LET t == Strip(text)
        signed == t # <<>> /\ t[1] \in {"+", "-"}
        body == IF signed THEN SubSeq(t, 2, Len(t)) ELSE t
        valid ==
            /\ body # <<>>
            /\ \A i \in 1..Len(body) : body[i] \in Digits \cup {"_"}
            /\ body[1] # "_" /\ body[Len(body)] # "_"
            /\ \A i \in 1..(Len(body) - 1) : ~(body[i] = "_" /\ body[i + 1] = "_")
    IN  IF ~valid THEN Raised
        ELSE Returned(IF signed /\ t[1] = "-" THEN 0 - DigitsValue(body)
                      ELSE DigitsValue(body))

\* lines 622-631: the topic selected by the text typed at "Select a topic number"
select_topic(topics, text) ==
    LET choice == ParseInt(text)
    IN  IF choice.raised THEN topics[1] ELSE SelectedTopicData(topics, choice.value)

RECURSIVE NumberText(_)
\* the decimal digits of k, with a leading "-" when k is negative
NumberText(k) ==
    IF k < 0 THEN <<"-">> \o NumberText(0 - k)
    ELSE IF k < 10 THEN <<CHOOSE c \in Digits : DigitValue(c) = k>>
    ELSE NumberText(k \div 10) \o NumberText(k % 10)

\* what the user may type at "Select a topic number": numbers around the range of the
\* list, 99, numbers with blanks or a plus sign around them, and texts that are no number
ChoiceInputs ==
    { [text |-> NumberText(k), numeric |-> TRUE, number |-> k] :
        k \in ((0 - 2)..(MaxPosts + 1)) \cup {99} }
    \cup { [text |-> <<" ">> \o NumberText(k) \o <<" ">>, numeric |-> TRUE, number |-> k] :
              k \in 1..2 }
    \cup { [text |-> <<"+">> \o NumberText(k), numeric |-> TRUE, number |-> k] : k \in 1..2 }
    \cup { [text |-> t, numeric |-> FALSE, number |-> 0] :
              t \in {<<>>, Kw_rust, Choice_Decimal, Choice_TwoNumbers, <<"-">>} }

NoCalls == [n \in Nodes |-> 0]

\* line 613: initial_state = self.workflow.invoke({})
Start ==
    /\ UNCHANGED << llm_raised, told, ending, args, returned, session_state, events >>
    /\ pc = "start"
    /\ phase' = "fetch"
    /\ state' = EmptyDict
    /\ pc' = EntryPoint
    /\ executed' = <<>>
    /\ UNCHANGED << max_generation_attempts, saved, path,
                    last_prompt, calls, unseen >>

\* lines 615-646: the first invoke returned; topic selection and preferences
SelectTopic ==
    /\ UNCHANGED << llm_raised, told, args, returned, session_state, events >>
    /\ pc = "END" /\ phase = "fetch"
    /\ IF Get(state, "trending_topics", <<>>) = <<>>
       THEN /\ pc' = "done"
            /\ ending' = "no_topics"
            /\ UNCHANGED << state, phase, calls, unseen >>
       ELSE \E choice \in ChoiceInputs, preferences \in PreferenceChoices :
                /\ state' =
                       Seed(select_topic(state["trending_topics"], choice.text), preferences)
                /\ pc' = "invoke"
                /\ phase' = "generate"
                /\ calls' = NoCalls
                /\ unseen' = 0
                /\ ending' = ending
    /\ UNCHANGED << max_generation_attempts, saved, path, last_prompt, executed >>

\* line 652: final_state = self.workflow.invoke(generation_state)
Invoke ==
    /\ UNCHANGED << llm_raised, told, ending, args, returned, session_state, events >>
    /\ pc = "invoke"
    /\ pc' = EntryPoint
    /\ executed' = <<>>
    /\ path' = "none"
    /\ UNCHANGED << state, phase, max_generation_attempts, saved, last_prompt, calls, unseen >>

\* lines 655-672: the draft is displayed, the user types "approve"; the file write may fail
Approve ==
    /\ UNCHANGED << llm_raised, args, returned, session_state, events >>
    /\ pc = "END" /\ phase = "generate"
    /\ \E raw \in FeedbackInputs :
           /\ Lower(Strip(raw)) = T_approve
           /\ \E writable \in BOOLEAN :
                  LET filepath == save_content_to_file(state, writable)
                  IN  /\ saved' = IF filepath # <<>> THEN "written" ELSE "failed"
                      /\ told' = {"approved_and_saved"} \cup
                                 (IF filepath # <<>> THEN {"saved_to"} ELSE {})
    /\ unseen' = 0
    /\ pc' = "done"
    /\ ending' = "approved"
    /\ UNCHANGED << state, phase, max_generation_attempts, path,
                    last_prompt, executed, calls >>

\* variant: at the cap the current version is saved without asking
CapReached_saves_without_asking ==
    /\ UNCHANGED << llm_raised, told, ending, args, returned, session_state, events >>
    /\ pc = "END" /\ phase = "generate"
    /\ \E raw \in FeedbackInputs : Lower(Strip(raw)) # T_approve
    /\ Get(state, "generation_attempts", 0) >= max_generation_attempts
    /\ unseen' = 0
    /\ saved' = "written"
    /\ pc' = "done"
    /\ UNCHANGED << state, phase, max_generation_attempts, path,
                    last_prompt, executed, calls >>

\* lines 674-676: other feedback, and the attempts have reached the configured cap
CapReached ==
    /\ UNCHANGED << llm_raised, told, ending, args, returned, session_state, events >>
    /\ pc = "END" /\ phase = "generate"
    /\ \E raw \in FeedbackInputs : Lower(Strip(raw)) # T_approve
    /\ Get(state, "generation_attempts", 0) >= max_generation_attempts
    /\ unseen' = 0
    /\ pc' = "save_anyway"
    /\ UNCHANGED << state, phase, max_generation_attempts, saved, path,
                    last_prompt, executed, calls >>

\* lines 676-681: the answer to "Save current version anyway? (y/n)"
SaveAnyway ==
    /\ UNCHANGED << llm_raised, args, returned, session_state, events >>
    /\ pc = "save_anyway"
    /\ \E answer \in {T_y, T_n} :
           IF answer = T_y
           THEN /\ \E writable \in BOOLEAN :
                       LET filepath == save_content_to_file(state, writable)
                       IN  /\ saved' = IF filepath # <<>> THEN "written" ELSE "failed"
                           /\ told' = IF filepath # <<>> THEN {"saved_to"} ELSE {}
                /\ ending' = "confirmed"
           ELSE /\ saved' = saved
                /\ told' = told
                /\ ending' = "declined"
    /\ pc' = "done"
    /\ UNCHANGED << state, phase, max_generation_attempts, path, last_prompt, executed, calls, unseen >>

\* lines 683-689: other feedback below the cap: the loop goes round with the feedback
Regenerate ==
    /\ UNCHANGED << llm_raised, told, ending, args, returned, session_state, events >>
    /\ pc = "END" /\ phase = "generate"
    /\ Get(state, "generation_attempts", 0) < max_generation_attempts
    /\ \E raw \in FeedbackInputs :
           /\ Lower(Strip(raw)) # T_approve
           /\ state' = Merge(state, [user_feedback |-> Strip(raw)])
    /\ unseen' = 0
    /\ pc' = "invoke"
    /\ UNCHANGED << phase, max_generation_attempts, saved, path, last_prompt, executed, calls >>

\* lines 691-693: KeyboardInterrupt at a prompt
Interrupt ==
    /\ UNCHANGED << llm_raised, told, args, returned, session_state, events >>
    /\ pc \in {"END", "save_anyway"} /\ phase \in {"fetch", "generate"}
    /\ pc' = "done"
    /\ ending' = "interrupt"
    /\ UNCHANGED << state, phase, max_generation_attempts, saved, path, last_prompt, executed, calls, unseen >>

\* lines 695-697: an exception left workflow.invoke
RunError ==
    /\ UNCHANGED << llm_raised, told, args, returned, session_state, events >>
    /\ pc = "raised" /\ phase \in {"fetch", "generate"}
    /\ pc' = "done"
    /\ ending' = "error"
    /\ UNCHANGED << state, phase, max_generation_attempts, saved, path, last_prompt, executed, calls, unseen >>

\* one step of the content generation loop of run()
NextLoop ==
    \/ NextWorkflow
    \/ Invoke
    \/ Approve
    \/ CapReached
    \/ SaveAnyway
    \/ Regenerate
    \/ Interrupt
    \/ RunError

Next ==
    \/ Start
    \/ SelectTopic
    \/ NextLoop

----------------------------------------------------------------------------
(* Specifications *)

\* run() from its first line.  Line 613 invokes the whole graph on {}: after
\* fetch_topics the workflow goes on to generate_titles, which reads
\* state['selected_topic'] before any topic was selected.
Init ==
    /\ pc = "start"
    /\ state = EmptyDict
    /\ phase = "none"
    /\ max_generation_attempts \in CapValues
    /\ saved = "no"
    /\ path = "none"
    /\ last_prompt = EmptyDict
    /\ executed = <<>>
    /\ calls = NoCalls
    /\ unseen = 0
    /\ llm_raised = FALSE
    /\ told = {}
    /\ ending = "none"
    /\ args = EmptyDict
    /\ returned = NotCalled
    /\ session_state = EmptyDict
    /\ events = <<>>

Spec == Init /\ [][Next]_vars

\* the steps of run() that follow line 613 up to the topic selection
NextFetchPhase ==
    \/ Start
    \/ FetchTopics
    \/ GenerateTitles
    \/ RunError

\* the topic-fetch phase of run(): the behaviours of Spec, written with the actions
\* that take part in them
SpecFetchPhase == Init /\ [][NextFetchPhase]_vars

\* the content generation loop of run(), entered at line 648 with the state
\* lines 639-646 build from a selected topic and the preferences
InitLoop ==
    /\ pc = "invoke"
    /\ phase = "generate"
    /\ max_generation_attempts \in CapValues
    /\ \E topics \in TopicLists, preferences \in PreferenceChoices :
           \E choice \in 1..Min(Len(topics), MaxChoice) :
               state = Seed(SelectedTopicData(topics, choice), preferences)
    /\ saved = "no"
    /\ path = "none"
    /\ last_prompt = EmptyDict
    /\ executed = <<>>
    /\ calls = NoCalls
    /\ unseen = 0
    /\ llm_raised = FALSE
    /\ told = {}
    /\ ending = "none"
    /\ args = EmptyDict
    /\ returned = NotCalled
    /\ session_state = EmptyDict
    /\ events = <<>>

SpecLoop == InitLoop /\ [][NextLoop]_vars

\* the states workflow.invoke is given
WorkflowInputs ==
    {EmptyDict} \cup
    { Merge(Seed(topics[1], preferences),
            [user_feedback |-> feedback, generation_attempts |-> attempts]) :
        topics \in TopicLists, preferences \in PreferenceChoices,
        feedback \in FeedbackInputs, attempts \in 0..MaxInputAttempts }

\* one workflow.invoke(input), for every input
InitWorkflow ==
    /\ pc = EntryPoint
    /\ state \in WorkflowInputs
    /\ phase = "none"
    /\ max_generation_attempts = DefaultMaxGenerationAttempts
    /\ saved = "no"
    /\ path = "none"
    /\ last_prompt = EmptyDict
    /\ executed = <<>>
    /\ calls = NoCalls
    /\ unseen = 0
    /\ llm_raised = FALSE
    /\ told = {}
    /\ ending = "none"
    /\ args = EmptyDict
    /\ returned = NotCalled
    /\ session_state = EmptyDict
    /\ events = <<>>

SpecWorkflow == InitWorkflow /\ [][NextWorkflow]_vars

\* the run() variables when only one function is called
Idle ==
    /\ pc = "idle"
    /\ state = EmptyDict
    /\ phase = "none"
    /\ max_generation_attempts = DefaultMaxGenerationAttempts
    /\ saved = "no"
    /\ path = "none"
    /\ last_prompt = EmptyDict
    /\ executed = <<>>
    /\ calls = NoCalls
    /\ unseen = 0
    /\ llm_raised = FALSE
    /\ told = {}
    /\ ending = "none"

\* n copies of the text s
Repeat(s, n) == [i \in 1..(n * Len(s)) |-> s[((i - 1) % Len(s)) + 1]]

\* a text of w words of which the first k end a sentence
SentenceText(w, k) == Repeat(T_SentenceWord, k) \o Repeat(T_Word, w - k)

\* texts for the readability score, with the counts they are built from
SentenceInputs ==
    UNION { { [content |-> SentenceText(w, k), selected_topic |-> Topic_Rust,
               keywords |-> <<>>, outline |-> Outline_Ok, words |-> w, sentences |-> k] :
                k \in 0..Min(w, MaxSentences) } : w \in 0..MaxWords }

\* the keyword list with m keywords that occur in the content and n that do not
KeywordList(m, n) ==
    [i \in 1..m |-> MatchingKeywords[((i - 1) % Len(MatchingKeywords)) + 1]]
        \o [i \in 1..n |-> Kw_java]

\* a short and a long content that contain the matching keywords
Content_Short == Content_Keywords

Content_Long == T_H1 \o Topic_Rust \o T_ParagraphBreak \o T_Subheading \o Content_Keywords
                    \o Repeat(T_Word, LongWords)

\* contents for the keyword bonus of the seo score
KeywordInputs ==
    { [content |-> content, selected_topic |-> Topic_Rust, keywords |-> KeywordList(m, n),
       outline |-> Outline_Ok, matches |-> m] :
        content \in {Content_Short, Content_Long}, m \in 0..MaxMatches, n \in 0..1 }

\* contents at the ends of the score ranges
ExtremeInputs ==
    { [content |-> content, selected_topic |-> Topic_Rust, keywords |-> keywords,
       outline |-> outline] :
        content \in {<<>>, T_Newline, Content_Plain, Content_Heading, Content_Full},
        keywords \in {<<>>, KeywordList(MaxMatches, 0)},
        outline \in {<<>>, Outline_Ok} }

ScoreInputs == SentenceInputs \cup KeywordInputs \cup ExtremeInputs

\* lines 399-401: the three scores of one content
Analyze ==
    /\ returned = NotCalled
    /\ returned' =
           [seo_score |-> calculate_seo_score(args["content"], args["selected_topic"],
                                              args["keywords"]),
            readability_score |-> calculate_readability_score(args["content"]),
            content_quality_score |->
                calculate_content_quality_score(args["content"], args["outline"])]
    /\ UNCHANGED args
    /\ UNCHANGED runvars
    /\ UNCHANGED chatvars

InitScores ==
    /\ Idle
    /\ args \in ScoreInputs
    /\ returned = NotCalled
    /\ session_state = EmptyDict
    /\ events = <<>>

\* the three scoring functions of ContentAnalyzer, each called once on every input
SpecScores == InitScores /\ [][Analyze]_vars

\* the dict d without the key k
Without(d, k) == [x \in DOMAIN d \ {k} |-> d[x]]

\* posts that pass the filter, among them the ones just inside its limits
PassingKinds == {"good", "score_1001", "title_11", "title_199", "no_stickied"}

\* posts the filter rejects
RejectedKinds == {"score_1000", "over_18", "stickied", "title_10", "title_200"}

\* posts that lack a key the loop reads of them
UnreadableKinds ==
    {"no_score", "no_over_18", "no_title", "no_num_comments", "no_subreddit", "no_created_utc"}

\* posts that lack a key the loop does not read of them, because the filter
\* expression has already failed
SkippedKinds == {"low_no_over_18", "low_no_subreddit", "adult_no_title", "stickied_no_comments"}

PostKinds == PassingKinds \cup RejectedKinds \cup UnreadableKinds \cup SkippedKinds

\* the i-th post of a listing, of the given kind; created_utc tells the posts apart
PostOfKind(kind, i) ==
    LET good == [PostGood EXCEPT !.created_utc = i]
        low == [good EXCEPT !.score = 900]
    IN  CASE kind = "good" -> good
          [] kind = "score_1001" -> [good EXCEPT !.score = 1001]
          [] kind = "title_11" -> [good EXCEPT !.title = Repeat(<<"x">>, 11)]
          [] kind = "title_199" -> [good EXCEPT !.title = Repeat(<<"x">>, 199)]
          [] kind = "no_stickied" -> Without(good, "stickied")
          [] kind = "score_1000" -> [good EXCEPT !.score = 1000]
          [] kind = "over_18" -> [good EXCEPT !.over_18 = TRUE]
          [] kind = "stickied" -> [good EXCEPT !.stickied = TRUE]
          [] kind = "title_10" -> [good EXCEPT !.title = Repeat(<<"x">>, 10)]
          [] kind = "title_200" -> [good EXCEPT !.title = Repeat(<<"x">>, 200)]
          [] kind = "no_score" -> Without(good, "score")
          [] kind = "no_over_18" -> Without(good, "over_18")
          [] kind = "no_title" -> Without(good, "title")
          [] kind = "no_num_comments" -> Without(good, "num_comments")
          [] kind = "no_subreddit" -> Without(good, "subreddit")
          [] kind = "no_created_utc" -> Without(good, "created_utc")
          [] kind = "low_no_over_18" -> Without(low, "over_18")
          [] kind = "low_no_subreddit" -> Without(low, "subreddit")
          [] kind = "adult_no_title" -> Without([good EXCEPT !.over_18 = TRUE], "title")
          [] kind = "stickied_no_comments" ->
                 Without([good EXCEPT !.stickied = TRUE], "num_comments")

\* where the posts of the given kind stand in a listing of n posts
Layouts == {"one", "odd", "all"}

Listing(n, layout, at, kind) ==
    [i \in 1..n |->
        IF \/ layout = "one" /\ i = at
           \/ layout = "odd" /\ i % 2 = 1
           \/ layout = "all"
        THEN PostOfKind(kind, i) ELSE PostOfKind("good", i)]

\* what requests.get and response.json() may give fetch_reddit_topics
FetchInputs ==
    { [ok |-> FALSE, error |-> e] : e \in {"network", "http_status", "malformed"} }
    \cup
    UNION { { [ok |-> TRUE, children |-> Listing(n, "one", at, kind)] :
                at \in 1..n, kind \in PostKinds } : n \in 1..MaxPosts }
    \cup
    { [ok |-> TRUE, children |-> Listing(n, layout, 0, kind)] :
        n \in 0..MaxPosts, layout \in {"odd", "all"}, kind \in PostKinds }

\* fetcher.fetch_reddit_topics() as fetch_trending_topics_node calls it, and the
\* update the node returns for the same feed
FetchReddit ==
    /\ returned = NotCalled
    /\ returned' = [topics |-> fetch_reddit_topics(args),
                    update |-> fetch_trending_topics_node(EmptyDict, args, 1).value]
    /\ UNCHANGED args
    /\ UNCHANGED runvars
    /\ UNCHANGED chatvars

InitFetch ==
    /\ Idle
    /\ args \in FetchInputs
    /\ returned = NotCalled
    /\ session_state = EmptyDict
    /\ events = <<>>

\* one call of TopicFetcher.fetch_reddit_topics for every modelled feed
SpecFetch == InitFetch /\ [][FetchReddit]_vars

\* the topic lists the selection is offered: the fallback list and the lists a
\* listing of passing posts gives
SelectionLists ==
    {_get_fallback_topics} \cup
    { fetch_reddit_topics([ok |-> TRUE, children |-> Listing(n, "all", 0, "good")]) :
        n \in 1..MaxPosts }

SelectionInputs ==
    { [topics |-> topics, text |-> choice.text, numeric |-> choice.numeric,
       number |-> choice.number] : topics \in SelectionLists, choice \in ChoiceInputs }

\* lines 622-631 for one list and one typed text
Select ==
    /\ returned = NotCalled
    /\ returned' = [selected_topic_data |-> select_topic(args["topics"], args["text"])]
    /\ UNCHANGED args
    /\ UNCHANGED runvars
    /\ UNCHANGED chatvars

InitSelect ==
    /\ Idle
    /\ args \in SelectionInputs
    /\ returned = NotCalled
    /\ session_state = EmptyDict
    /\ events = <<>>

\* the topic selection of run() for every modelled list and input
SpecSelect == InitSelect /\ [][Select]_vars

----------------------------------------------------------------------------
(* The Wikipedia API: POST /scrape of main.py *)

\* what scrape_wikipedia(topic) may do: return a text (the empty one among them),
\* return None, or raise
ScrapeOutcomes ==
    { [kind |-> "content", content |-> Repeat(<<"x">>, n)] : n \in 0..MaxContent }
    \cup { [kind |-> "none"] }
    \cup { [kind |-> "raises", error |-> e] : e \in {T_Timeout, T_LlmError} }

\* str(e) of HTTPException(status_code, detail): "<status_code>: <detail>"
HTTPExceptionText(status_code, detail) == NumberText(status_code) \o T_StatusSep \o detail

\* the body of the try of scrape: the exception that leaves it, or the response
ScrapeTry(topic, outcome) ==
    IF outcome.kind = "raises" THEN [raised |-> TRUE, text |-> outcome.error]
    ELSE IF outcome.kind = "none" \/ outcome.content = <<>>
         THEN [raised |-> TRUE, text |-> HTTPExceptionText(404, T_NotFound)]
    ELSE Returned([topic |-> topic, content_length |-> Len(outcome.content),
                   content |-> outcome.content])

\* scrape: "except Exception" also catches the HTTPException raised inside the try
scrape(topic, outcome) ==
    LET tried == ScrapeTry(topic, outcome)
    IN  IF tried.raised THEN [status_code |-> 500, detail |-> tried.text]
        ELSE [status_code |-> 200, body |-> tried.value]

ScrapeInputs ==
    { [topic |-> topic, outcome |-> outcome] :
        topic \in {Topic_Rust, Topic_AI, Topic_Climate, Topic_Remote, Topic_Cyber},
        outcome \in ScrapeOutcomes }

\* one POST /scrape
PostScrape ==
    /\ returned = NotCalled
    /\ returned' = scrape(args["topic"], args["outcome"])
    /\ UNCHANGED args
    /\ UNCHANGED runvars
    /\ UNCHANGED chatvars

InitScrape ==
    /\ Idle
    /\ args \in ScrapeInputs
    /\ returned = NotCalled
    /\ session_state = EmptyDict
    /\ events = <<>>

\* POST /scrape for every modelled topic and outcome of scrape_wikipedia
SpecScrape == InitScrape /\ [][PostScrape]_vars

----------------------------------------------------------------------------
(* The Wikipedia chat: the Streamlit application of app.py.  One action is one
   run of the script, started by one click. *)

None == [none |-> TRUE]

Some(v) == [none |-> FALSE, value |-> v]

\* the truth value of an optional text: None and "" are false
Truthy(o) == ~o.none /\ o.value # <<>>

\* initialize_session_state: each key is set only when the session lacks it
initialize_session_state(ss) ==
    Merge([chat_messages |-> <<>>, qa_chain |-> "None", vector_store |-> "None",
           current_content |-> None, current_page |-> None, show_results |-> FALSE],
          ss)

Message(role, content) == [role |-> role, content |-> content]

\* the welcome message of handle_scraping
WelcomeMessage(page_name) ==
    Message("assistant", T_WelcomePre \o page_name \o T_WelcomePost)

\* setup_chat_system: the chain is cleared first; building the vector store or the
\* chain may raise (setup_ok = FALSE), which is caught and answered with False
setup_chat_system(ss, setup_ok) ==
    LET cleared == [ss EXCEPT !["qa_chain"] = "None"]
    IN  IF setup_ok
        THEN [session_state |-> [cleared EXCEPT !["vector_store"] = "store",
                                                !["qa_chain"] = "chain"],
              value |-> TRUE]
        ELSE [session_state |-> cleared, value |-> FALSE]

\* handle_scraping: scraped is what scrape_wikipedia does for page_name; an
\* exception of scrape_wikipedia is not handled and ends the script run
handle_scraping(ss, page_name, scrape_clicked, scraped, setup_ok) ==
    IF ~scrape_clicked \/ page_name = <<>> THEN [raised |-> FALSE, session_state |-> ss]
    ELSE IF scraped.kind = "raises" THEN [raised |-> TRUE, session_state |-> ss]
    ELSE IF scraped.kind = "none" THEN [raised |-> FALSE, session_state |-> ss]
    ELSE LET stored == [ss EXCEPT !["current_content"] = Some(scraped.content),
                                  !["current_page"] = Some(page_name),
                                  !["show_results"] = TRUE]
             chat == setup_chat_system(stored, setup_ok)
         IN  [raised |-> FALSE,
              session_state |->
                  IF chat.value
                  THEN [chat.session_state EXCEPT
                            !["chat_messages"] = << WelcomeMessage(page_name) >>]
                  ELSE chat.session_state]

\* check_and_display_results hands the content to main, which shows the tabs, and
\* _handle_chat_tab shows the chat only when there is a chain
ChatShown(ss) ==
    /\ ss # EmptyDict
    /\ ss["show_results"]
    /\ Truthy(ss["current_content"])
    /\ Truthy(ss["current_page"])
    /\ ss["qa_chain"] # "None"

\* what qa_chain.invoke does: a result holding the answer, a result without the
\* "result" key, or an exception
ChainOutcomes ==
    { [kind |-> "answer", text |-> Content_Plain],
      [kind |-> "no_result"],
      [kind |-> "raises", error |-> T_Timeout] }

\* the message of the exception the try block of handle_chat_interaction catches
ChainError(chain) == IF chain.kind = "raises" THEN chain.error ELSE T_ResultKey

\* handle_chat_interaction with st.rerun() caught by the handler of the try block
handle_chat_interaction_rerun_caught(ss, send_clicked, user_question, chain, clear_clicked) ==
    IF send_clicked /\ Strip(user_question) # <<>>
    THEN LET asked == Append(ss["chat_messages"], Message("user", user_question))
         IN  IF chain.kind = "answer"
             THEN [ss EXCEPT !["chat_messages"] =
                      asked \o << Message("assistant", chain.text),
                                  Message("assistant", T_Sorry) >>]
             ELSE [ss EXCEPT !["chat_messages"] =
                      Append(asked, Message("assistant", T_Sorry \o ChainError(chain)))]
    ELSE IF clear_clicked /\ ss["chat_messages"] # <<>>
         THEN [ss EXCEPT !["chat_messages"] = <<>>]
         ELSE ss

\* handle_chat_interaction: the session after the run.  st.rerun() ends the run by
\* an exception that "except Exception" does not catch (it derives from
\* BaseException), so the answer is the only message after the question.
handle_chat_interaction(ss, send_clicked, user_question, chain, clear_clicked) ==
    IF send_clicked /\ Strip(user_question) # <<>>
    THEN LET asked == Append(ss["chat_messages"], Message("user", user_question))
         IN  IF chain.kind = "answer"
             THEN [ss EXCEPT !["chat_messages"] =
                      Append(asked, Message("assistant", chain.text))]
             ELSE [ss EXCEPT !["chat_messages"] =
                      Append(asked, Message("assistant", T_Sorry \o ChainError(chain)))]
    ELSE IF clear_clicked /\ ss["chat_messages"] # <<>>
         THEN [ss EXCEPT !["chat_messages"] = <<>>]
         ELSE ss

\* the widgets of one run: the texts typed and the one button clicked
NoClick ==
    [page_name |-> <<>>, scrape_clicked |-> FALSE, scraped |-> [kind |-> "none"],
     setup_ok |-> FALSE, send_clicked |-> FALSE, user_question |-> <<>>,
     chain |-> [kind |-> "no_result"], clear_clicked |-> FALSE]

\* main of app.py: one run of the script
main(ss, in) ==
    LET initialized == initialize_session_state(ss)
        scraping == handle_scraping(initialized, in.page_name, in.scrape_clicked,
                                    in.scraped, in.setup_ok)
    IN  IF scraping.raised THEN scraping.session_state
        ELSE IF ChatShown(scraping.session_state)
             THEN handle_chat_interaction(scraping.session_state, in.send_clicked,
                                          in.user_question, in.chain, in.clear_clicked)
             ELSE scraping.session_state

PageNames == { <<>>, Topic_Rust, Topic_AI }

PageOutcomes ==
    { [kind |-> "content", content |-> Content_Plain],
      [kind |-> "content", content |-> <<>>],
      [kind |-> "none"],
      [kind |-> "raises", error |-> T_Timeout] }

Questions == { <<>>, <<" ", " ">>, <<" ">> \o Topic_Rust \o <<"?", " ">> }

\* the browser opens the application: the first run, nothing clicked
OpenPage ==
    /\ session_state = EmptyDict
    /\ session_state' = main(session_state, NoClick)
    /\ UNCHANGED events
    /\ UNCHANGED << args, returned >>
    /\ UNCHANGED runvars

\* a click on "Scrape Page"
ScrapeClick ==
    /\ session_state # EmptyDict
    /\ \E page_name \in PageNames, scraped \in PageOutcomes, setup_ok \in BOOLEAN :
         LET in == [NoClick EXCEPT !.page_name = page_name, !.scrape_clicked = TRUE,
                                   !.scraped = scraped, !.setup_ok = setup_ok]
         IN  /\ session_state' = main(session_state, in)
             /\ events' = IF page_name # <<>> /\ scraped.kind = "content" /\ setup_ok
                          THEN << [kind |-> "scrape", page |-> page_name] >>
                          ELSE events
    /\ UNCHANGED << args, returned >>
    /\ UNCHANGED runvars

\* a click on "Ask" with user_question in the input field
AskClick ==
    /\ ChatShown(session_state)
    /\ Len(events) < MaxEvents
    /\ \E user_question \in Questions, chain \in ChainOutcomes :
         LET in == [NoClick EXCEPT !.send_clicked = TRUE,
                                   !.user_question = user_question, !.chain = chain]
         IN  /\ session_state' = main(session_state, in)
             /\ events' = Append(events, [kind |-> "ask", question |-> user_question,
                                          chain |-> chain])
    /\ UNCHANGED << args, returned >>
    /\ UNCHANGED runvars

\* a click on "Clear Chat History", which is shown while there are messages
ClearClick ==
    /\ ChatShown(session_state)
    /\ session_state["chat_messages"] # <<>>
    /\ Len(events) < MaxEvents
    /\ session_state' = main(session_state, [NoClick EXCEPT !.clear_clicked = TRUE])
    /\ events' = Append(events, [kind |-> "clear"])
    /\ UNCHANGED << args, returned >>
    /\ UNCHANGED runvars

InitChat ==
    /\ Idle
    /\ args = EmptyDict
    /\ returned = NotCalled
    /\ session_state = EmptyDict
    /\ events = <<>>

NextChat == OpenPage \/ ScrapeClick \/ AskClick \/ ClearClick

\* one browser session of the Streamlit application
SpecChat == InitChat /\ [][NextChat]_vars

----------------------------------------------------------------------------
(* Properties *)

\* the feedback as decide_workflow_path reads it: lower-cased and trimmed
NormalFeedback == Strip(Lower(Get(state, "user_feedback", <<>>)))

Attempts == Get(state, "generation_attempts", 0)

\* C1: decide_workflow_path returns "end" whenever user_feedback, lower-cased and
\* trimmed, equals "approve", for every value of generation_attempts; the workflow
\* then stands at END.
C1_ApproveEnds ==
    (path # "none" /\ NormalFeedback = T_approve) => (path = "end" /\ pc = "END")

\* C1 happens: approval in mixed case was decided with fewer than 3 attempts
C1_Witness ==
    /\ path = "end"
    /\ Get(state, "user_feedback", <<>>) = FB_APPROVE
    /\ Attempts = 1

\* C2: decide_workflow_path returns "regenerate" exactly when the feedback is not
\* "approve" and generation_attempts < 3; with generation_attempts >= 3 it returns
\* "end" for every feedback text.
C2_RegenerateExactlyBelowCap ==
    path # "none" =>
        /\ (path = "regenerate") <=> (NormalFeedback # T_approve /\ Attempts < 3)
        /\ Attempts >= 3 => path = "end"
        /\ path \in {"regenerate", "end"}

\* C2 happens: "regenerate" was returned at 2 attempts for feedback that is not "approve"
C2_Witness ==
    /\ path = "regenerate"
    /\ Get(state, "user_feedback", <<>>) = FB_approved
    /\ Attempts = 2

\* C3: generation_attempts never exceeds the configured cap max_generation_attempts,
\* for every configured cap value, and generate_content is not entered when the
\* counter already equals the cap.
C3_AttemptsWithinConfiguredCap ==
    /\ Attempts <= max_generation_attempts
    /\ pc = "generate_content" => Attempts < max_generation_attempts

\* C4: generation_attempts increases by exactly 1 on every execution of
\* generate_content, whether the text generator succeeds or raises, and nothing else
\* changes it: after N executions for a topic the counter equals N.
C4_AttemptsCountContentCalls == Attempts = calls["generate_content"]

\* C4 happens: four executions, the last one with a text generator that raised,
\* the fourth started by the interaction loop
C4_Witness ==
    /\ calls["generate_content"] = 4
    /\ pc = "optimize_content"
    /\ Get(state, "estimated_read_time", 1) = 0

\* C5: each workflow invocation reaches END and the interaction loop of run() exits,
\* stated so that a finite run refutes it: no invocation is left by an exception
\* in place of reaching END, and the work of the loop is bounded, generate_content
\* running at most max(3, max_generation_attempts) times for a topic.
C5_InvocationEndsAndLoopExits ==
    /\ pc # "raised"
    /\ calls["generate_content"] <= Max(3, max_generation_attempts)

\* C6: between two successive executions of generate_content the draft of the first
\* is displayed and the user is asked for feedback: at most one execution of
\* generate_content since the user was last asked.
C6_FeedbackBetweenGenerations == unseen <= 1

\* C7: the prompt generate_content sends for a regenerated draft depends on the prior
\* user_feedback: two states that differ only in user_feedback yield different prompts.
C7_PromptDependsOnFeedback ==
    (pc = "generate_content" /\ Get(state, "user_feedback", <<>>) # <<>>) =>
        \A raw \in FeedbackInputs :
            Strip(raw) # state["user_feedback"] =>
                ContentPrompt([state EXCEPT !["user_feedback"] = Strip(raw)])
                    # ContentPrompt(state)

\* C8: across the approve/regenerate cycle of one topic generate_titles and
\* generate_outline each run at most once, including regenerations the interaction
\* loop starts after user feedback.
C8_TitlesAndOutlineOnce ==
    /\ calls["generate_titles"] <= 1
    /\ calls["generate_outline"] <= 1

\* the pairs (step, next step) of the claimed order
ClaimedOrder ==
    { <<"fetch_topics", "generate_titles">>,
      <<"generate_titles", "generate_outline">>,
      <<"generate_outline", "generate_content">>,
      <<"generate_content", "optimize_content">>,
      <<"optimize_content", "generate_content">> }

\* C9: an invocation executes steps only in the order fetch_topics, generate_titles,
\* generate_outline, generate_content, optimize_content; the continuation predicate is
\* evaluated only immediately after optimize_content; the only cycle is
\* optimize_content -> generate_content.
C9_StepOrder ==
    /\ executed # <<>> => executed[1] = "fetch_topics"
    /\ \A i \in 1..(Len(executed) - 1) : <<executed[i], executed[i+1]>> \in ClaimedOrder
    /\ pc \in Nodes =>
           \/ executed = <<>> /\ pc = "fetch_topics"
           \/ executed # <<>> /\ <<executed[Len(executed)], pc>> \in ClaimedOrder
    /\ path # "none" => (executed # <<>> /\ executed[Len(executed)] = "optimize_content")
    /\ pc = "END" => (path = "end" /\ executed[Len(executed)] = "optimize_content")

\* C9 happens: the workflow has gone round the cycle and ended
C9_Witness ==
    /\ pc = "END"
    /\ Len(executed) >= 7
    /\ SubSeq(executed, 4, 7) =
           <<"generate_content", "optimize_content", "generate_content", "optimize_content">>

\* C10: after every execution of the optimization step optimized_content begins with
\* a top-level heading line: its first characters are "# ".
C10_OptimizedStartsWithHeading ==
    "optimized_content" \in DOMAIN state => StartsWith(state["optimized_content"], T_H1)


\* the last node the running invocation executed, "none" before the first
LastExecuted == IF executed = <<>> THEN "none" ELSE executed[Len(executed)]

\* a title without its leading "N." numbering
WithoutNumbering(title) ==
    IF IsNumbered(title) THEN Strip(AfterFirst(title, T_Dot)) ELSE title

\* the optimized content the heading rule describes for the content of state s:
\* T is the first title suggestion without its numbering, or the topic name when
\* title_suggestions is absent or empty
ClaimedOptimizedContent(s) ==
    LET titles == Get(s, "title_suggestions", <<>>)
        T == IF titles = <<>> THEN s["selected_topic"] ELSE WithoutNumbering(titles[1])
    IN  IF StartsWith(Strip(s["content"]), T_H1) THEN s["content"]
        ELSE T_H1 \o T \o T_ParagraphBreak \o s["content"]

\* C11: heading normalization keeps content that already starts with a top-level
\* heading, and otherwise yields "# " + T + "\n\n" + content, T being the first
\* title suggestion without its "N." numbering or the topic name when there is no
\* title suggestion (absent or empty list); the step never fails for lack of a title.
C11_HeadingNormalized ==
    (LastExecuted = "optimize_content"
        /\ {"content", "selected_topic", "outline"} \subseteq DOMAIN state) =>
        /\ pc # "raised"
        /\ state["optimized_content"] = ClaimedOptimizedContent(state)


\* the channels content_optimization_node returns
ScoreKeys == {"seo_score", "readability_score", "content_quality_score"}

\* C12: the three scores are never partially stale: they are written together with
\* optimized_content in one step, and whenever they are set each equals its scoring
\* function applied to the current optimized_content (with the current topic,
\* keywords and outline).
C12_ScoresCurrent ==
    /\ (ScoreKeys \cap DOMAIN state # {}) =>
           (ScoreKeys \cup {"optimized_content"}) \subseteq DOMAIN state
    /\ (ScoreKeys \subseteq DOMAIN state) =>
           /\ state["seo_score"] =
                  calculate_seo_score(state["optimized_content"], state["selected_topic"],
                                      Get(state, "keywords", <<>>))
           /\ state["readability_score"] =
                  calculate_readability_score(state["optimized_content"])
           /\ state["content_quality_score"] =
                  calculate_content_quality_score(state["optimized_content"], state["outline"])


\* C13: every score lies in [0, 100]: seo_score and content_quality_score never
\* exceed 100 for any input, and no score is negative, also for short content that
\* matches neither the topic nor a keyword.
C13_ScoresWithinRange ==
    returned # NotCalled =>
        \A k \in ScoreKeys : 0 <= returned[k] /\ returned[k] <= 100

\* the bonuses of a long content with heading, topic, subheading and keywords add
\* up to more than 100
C13_Witness ==
    /\ returned # NotCalled
    /\ args["content"] = Content_Long
    /\ Len(args["keywords"]) >= 5
    /\ returned["seo_score"] = 100

\* the readability score stated for a text of w words and s runs of . ! ?
ClaimedReadability(w, s) ==
    IF s = 0 THEN 0
    ELSE IF w < 15 * s THEN 85
    ELSE IF w < 20 * s THEN 75
    ELSE IF w < 25 * s THEN 65
    ELSE 50

\* C14: calculate_readability_score returns 0 for a text without a run of . ! ?;
\* otherwise, with w whitespace-separated words and s such runs, 85 if w < 15s,
\* 75 if w < 20s, 65 if w < 25s, else 50.
C14_ReadabilityBands ==
    (returned # NotCalled /\ "sentences" \in DOMAIN args) =>
        returned["readability_score"] = ClaimedReadability(args["words"], args["sentences"])

\* a text of exactly 15 words per sentence falls in the second band
C14_Witness ==
    /\ returned # NotCalled
    /\ "sentences" \in DOMAIN args
    /\ args["sentences"] = 2 /\ args["words"] = 30
    /\ returned["readability_score"] = 75

\* C15: calculate_seo_score is non-decreasing in the number of keywords that occur in
\* the content; the keyword bonus is min(3 * matches, 15), so matches beyond 5 do not
\* change the score.
C15_KeywordBonus ==
    (returned # NotCalled /\ "matches" \in DOMAIN args) =>
        LET seo(keywords) ==
                calculate_seo_score(args["content"], args["selected_topic"], keywords)
            n == Len(args["keywords"])
        IN  /\ returned["seo_score"] = Min(100, seo(<<>>) + Min(3 * args["matches"], 15))
            /\ \A j \in 0..n : seo(SubSeq(args["keywords"], 1, j)) <= returned["seo_score"]
            /\ args["matches"] >= 5 => returned["seo_score"] = seo(KeywordList(5, 0))

\* seven keywords occur in a short content: the bonus is 15, not 21
C15_Witness ==
    /\ returned # NotCalled
    /\ "matches" \in DOMAIN args
    /\ args["matches"] = 7
    /\ args["content"] = Content_Short
    /\ returned["seo_score"] = 65


\* the filter as stated: score above 1000, not over_18, not stickied, title longer
\* than 10 and shorter than 200 characters
ClaimedPasses(post) ==
    /\ post["score"] > 1000
    /\ ~post["over_18"]
    /\ ~("stickied" \in DOMAIN post /\ post["stickied"])
    /\ 10 < Len(post["title"]) /\ Len(post["title"]) < 200

\* a listing whose posts all have every required field
WellFormed(feed) ==
    /\ feed.ok
    /\ \A i \in 1..Len(feed.children) : RequiredPostKeys \subseteq DOMAIN feed.children[i]

\* the positions of the posts of a well-formed listing that pass the stated filter
PassingPositions(feed) ==
    {i \in 1..Len(feed.children) : ClaimedPasses(feed.children[i])}

\* C16: on a successful fetch fetch_reddit_topics returns exactly the first 15 (or
\* fewer) of the fetched items that pass the filter, in input order: every returned
\* item passes it, and no passing item that precedes a returned item is omitted.
C16_FirstFifteenPassing ==
    (returned # NotCalled /\ WellFormed(args)) =>
        LET passing == PassingPositions(args)
            topics == returned["topics"]
        IN  /\ Len(topics) = Min(15, Cardinality(passing))
            /\ \A j \in 1..Len(topics) :
                   \E i \in passing :
                       /\ Cardinality({k \in passing : k <= i}) = j
                       /\ topics[j]["created_utc"] = args.children[i]["created_utc"]
                       /\ topics[j]["title"] = args.children[i]["title"]
                       /\ topics[j]["score"] = args.children[i]["score"]

\* seventeen posts of which the second is rejected: the first fifteen of the
\* sixteen passing posts are returned
C16_Witness ==
    /\ returned # NotCalled
    /\ WellFormed(args)
    /\ Cardinality(PassingPositions(args)) = 16
    /\ 2 \notin PassingPositions(args)
    /\ Len(returned["topics"]) = 15
    /\ returned["topics"][15]["created_utc"] = 16


\* the fallback list as stated: five topics, the first one "The Future of Artificial
\* Intelligence in 2024" with score 5000
IsFallbackList(topics) ==
    /\ topics = _get_fallback_topics
    /\ Len(topics) = 5
    /\ topics[1]["title"] = Topic_AI /\ topics[1]["score"] = 5000
    /\ [j \in 1..5 |-> topics[j]["title"]] =
           <<Topic_AI, Topic_Climate, Topic_Remote, Topic_Cyber, Topic_Mental>>

\* the fetch failures as stated: the request or the parsing fails, or some record
\* lacks a required field
FetchFails(feed) ==
    \/ ~feed.ok
    \/ \E i \in 1..Len(feed.children) : ~(RequiredPostKeys \subseteq DOMAIN feed.children[i])

\* C17 as stated: when the feed fetch fails (network error, HTTP error status,
\* malformed response, or a record missing a required field) fetch_reddit_topics
\* returns exactly the 5 fallback topics in their fixed order and never raises.
C17_FallbackOnFailure ==
    (returned # NotCalled /\ FetchFails(args)) => IsFallbackList(returned["topics"])

\* the loop reads a field the record lacks: score is read of every record, over_18
\* only of a record with score above 1000, title only of one that is also not
\* over_18, and num_comments, subreddit, created_utc only of one that passes the filter
ReadFails(post) ==
    LET has(k) == k \in DOMAIN post
    IN  \/ ~has("score")
        \/ /\ post["score"] > 1000
           /\ \/ ~has("over_18")
              \/ /\ ~post["over_18"]
                 /\ \/ ~has("title")
                    \/ /\ 10 < Len(post["title"]) /\ Len(post["title"]) < 200
                       /\ ~(has("stickied") /\ post["stickied"])
                       /\ ~({"num_comments", "subreddit", "created_utc"} \subseteq DOMAIN post)

\* C17 amended: fetch_reddit_topics returns exactly the 5 fallback topics in their
\* fixed order, and never raises, when the request or the parsing fails or when the
\* loop reads a field a record lacks; a record that lacks only fields the loop does
\* not read of it is skipped like any rejected record and the topics of the feed
\* are returned.
C17_FallbackWhenReadFails ==
    returned # NotCalled =>
        IF ~args.ok \/ \E i \in 1..Len(args.children) : ReadFails(args.children[i])
        THEN IsFallbackList(returned["topics"])
        ELSE \A j \in 1..Len(returned["topics"]) :
                 \E i \in 1..Len(args.children) :
                     returned["topics"][j]["created_utc"] = args.children[i]["created_utc"]

\* two readable posts, then a passing post without subreddit: the fallback list
C17_Witness ==
    /\ returned # NotCalled
    /\ args.ok
    /\ Len(args.children) = 3
    /\ "subreddit" \notin DOMAIN args.children[3]
    /\ ReadFails(args.children[3])
    /\ IsFallbackList(returned["topics"])

\* C18: when the fetch succeeds but zero items remain after filtering, topic
\* fetching returns the fixed 5-item fallback list, not an empty list.
C18_FallbackWhenNothingPasses ==
    (returned # NotCalled /\ WellFormed(args) /\ PassingPositions(args) = {}) =>
        /\ IsFallbackList(returned["topics"])
        /\ IsFallbackList(returned["update"]["trending_topics"])


\* C19: topic selection never fails the session: for a non-empty candidate list of
\* length n, numeric input k with 1 <= k <= n selects candidate k-1 (the k-th of the
\* list), and every other input (0, negative, k > n, non-numeric text) selects
\* candidate 0 (the first) without raising.
C19_SelectionNeverFails ==
    returned # NotCalled =>
        LET topics == args["topics"]
            k == args["number"]
        IN  returned["selected_topic_data"] =
                IF args["numeric"] /\ 1 <= k /\ k <= Len(topics) THEN topics[k]
                ELSE topics[1]

\* "99" typed for a list of 15 candidates selects the first
C19_Witness ==
    /\ returned # NotCalled
    /\ Len(args["topics"]) = 15
    /\ args["text"] = <<"9", "9">>
    /\ returned["selected_topic_data"] = args["topics"][1]
    /\ returned["selected_topic_data"] # args["topics"][15]


\* C20: an artifact is persisted only after the user approved the draft, or after the
\* attempt cap was reached without approval and the user confirmed the save-anyway
\* prompt; reaching the cap without approval always offers that confirmation (the
\* loop goes round only below the cap, and leaves only by approval, by the answer
\* to the prompt, by an interrupt or by an error); an interrupt or a top-level error
\* never leads to a write.
C20_PersistOnlyApprovedOrConfirmed ==
    /\ saved # "no" => ending \in {"approved", "confirmed"}
    /\ ending \in {"confirmed", "declined"} => Attempts >= max_generation_attempts
    /\ ending \in {"interrupt", "error"} => saved = "no"
    /\ pc = "invoke" => Attempts < max_generation_attempts
    /\ pc = "save_anyway" => saved = "no" /\ Attempts >= max_generation_attempts
    /\ pc = "done" => ending \in {"approved", "confirmed", "declined", "interrupt", "error"}

\* the cap was reached without approval, the user answered y and the file was written
C20_Witness ==
    /\ pc = "done"
    /\ ending = "confirmed"
    /\ saved = "written"
    /\ Attempts >= max_generation_attempts
    /\ max_generation_attempts = 4


\* C21: on a persistence failure save_content_to_file returns the empty path and does
\* not raise, and the interaction loop checks for the empty path before reporting
\* success: the user is never told the content was saved when the write failed.
C21_SavedOnlyReportedWhenWritten ==
    (told \cap {"approved_and_saved", "saved_to"}) # {} => saved = "written"


\* C22: when the text generator raises inside generate_content the failure is not
\* fatal: content becomes the placeholder "# <topic>" heading with the failure text,
\* word_count is 0, the error string is appended to errors, generation_attempts
\* advances by 1, and the workflow continues to optimize_content.
C22_ContentFailureNotFatal ==
    [][(pc = "generate_content" /\ llm_raised') =>
          /\ pc' = "optimize_content"
          /\ state'["content"] = T_H1 \o state["selected_topic"] \o T_FailedContent
          /\ state'["word_count"] = 0
          /\ state'["errors"] = Append(Get(state, "errors", <<>>), T_LlmError)
          /\ state'["generation_attempts"] = Get(state, "generation_attempts", 0) + 1]_vars

\* the generator raised in generate_content and the workflow stands before
\* optimize_content with the placeholder
C22_Witness ==
    /\ LastExecuted = "generate_content"
    /\ llm_raised
    /\ pc = "optimize_content"
    /\ state["word_count"] = 0
    /\ state["generation_attempts"] = 2


\* C23: errors is append-only over the life of a workflow state: every step, and so
\* every re-invocation of the workflow, leaves errors equal to its previous value or
\* to that value extended at the end; recorded errors are never removed, reordered
\* or cleared.
C23_ErrorsAppendOnly ==
    [][("errors" \in DOMAIN state) =>
          /\ "errors" \in DOMAIN state'
          /\ Len(state'["errors"]) \in {Len(state["errors"]), Len(state["errors"]) + 1}
          /\ SubSeq(state'["errors"], 1, Len(state["errors"])) = state["errors"]]_vars


\* C24: in every reachable state where word_count is set, estimated_read_time =
\* max(1, word_count div 200); in particular estimated_read_time is at least 1, also
\* after a failed generation with word_count 0.
C24_ReadTimeDerived ==
    ("word_count" \in DOMAIN state) =>
        /\ "estimated_read_time" \in DOMAIN state
        /\ state["estimated_read_time"] = Max(1, state["word_count"] \div 200)
        /\ state["estimated_read_time"] >= 1


\* C25: the topic candidate list is fetched once per session and is immutable
\* afterwards: after the first topic fetch no later workflow invocation (content
\* generation or regeneration) performs another feed fetch or changes trending_topics.
C25_TopicsFetchedOnce ==
    /\ calls["fetch_topics"] = 0
    /\ "trending_topics" \notin DOMAIN state

\* C27: the topic-fetch phase of run() (the initial workflow invocation with an empty
\* state) completes and yields the candidate list whenever the feed or the fallback
\* provides at least one topic, and no title, outline or content generation step
\* executes before the user has selected a topic and preferences have been captured.
C27_FetchPhaseOnlyFetches ==
    phase = "fetch" =>
        /\ pc # "raised"
        /\ ending # "error"
        /\ \A i \in 1..Len(executed) : executed[i] = "fetch_topics"


\* C26: POST /scrape responds with status 404 ("Topic not found or no content
\* available.") whenever scrape_wikipedia returns no content for the topic, and with
\* 500 only for unexpected errors.
C26_NotFoundIs404 ==
    returned # NotCalled =>
        LET outcome == args["outcome"]
            no_content ==
                outcome.kind = "none" \/ (outcome.kind = "content" /\ outcome.content = <<>>)
        IN  /\ no_content =>
                /\ returned["status_code"] = 404
                /\ returned["detail"] = T_NotFound
            /\ returned["status_code"] = 500 => outcome.kind = "raises"


\* the asks of the history whose question is not blank
IsNonBlankAsk(e) == e.kind = "ask" /\ Strip(e.question) # <<>>

\* the assistant message the claim expects after a question
IsReplyTo(message, chain) ==
    /\ message.role = "assistant"
    /\ IF chain.kind = "answer" THEN message.content = chain.text
       ELSE StartsWith(message.content, T_Sorry)

\* the chat after a successful scrape and asks only: the welcome message, then
\* one user message and one assistant message for each non-blank question
ChatAlternates ==
    (events # <<>> /\ \A i \in 1..Len(events) : events[i].kind # "clear") =>
        LET asks == SelectSeq(events, IsNonBlankAsk)
            chat_messages == session_state["chat_messages"]
        IN  /\ Len(chat_messages) = 1 + 2 * Len(asks)
            /\ chat_messages[1] = WelcomeMessage(events[1].page)
            /\ \A j \in 1..Len(asks) :
                 /\ chat_messages[2 * j] = Message("user", asks[j].question)
                 /\ IsReplyTo(chat_messages[2 * j + 1], asks[j].chain)

\* one ask: a non-blank question appends its user message and one assistant
\* message, a blank one appends nothing
AskAppendsPair ==
    (Len(events') = Len(events) + 1 /\ events'[Len(events')].kind = "ask") =>
        LET e == events'[Len(events')]
            before == session_state["chat_messages"]
            after == session_state'["chat_messages"]
        IN  IF Strip(e.question) = <<>> THEN after = before
            ELSE /\ Len(after) = Len(before) + 2
                 /\ SubSeq(after, 1, Len(before)) = before
                 /\ after[Len(before) + 1] = Message("user", e.question)
                 /\ IsReplyTo(after[Len(before) + 2], e.chain)

\* C28: in the Wikipedia chat every submitted non-blank question appends exactly one
\* user message immediately followed by exactly one assistant message (the answer,
\* or an error text when the chain raises), and a blank question appends nothing; so
\* after any sequence of asks following a successful scrape, chat_messages is the
\* welcome message followed by strictly alternating user/assistant entries.
C28_ChatAlternates == []ChatAlternates /\ [][AskAppendsPair]_vars

\* a scrape, an answered question, a blank question and a question the chain failed on
C28_Witness ==
    /\ Len(events) = 4
    /\ events[1].kind = "scrape"
    /\ IsNonBlankAsk(events[2]) /\ events[2].chain.kind = "answer"
    /\ events[3].kind = "ask" /\ ~IsNonBlankAsk(events[3])
    /\ IsNonBlankAsk(events[4]) /\ events[4].chain.kind = "raises"
    /\ Len(session_state["chat_messages"]) = 5

====
